---- MODULE Spec2Model ----
(***************************************************************************)
(* Model of package slackauth (auth.go): the configuration check of New,   *)
(* the OAuth callback handler ServeHTTP, the observer slot set by OnAuth   *)
(* and the dispatcher goroutine started by Run, which drains the buffered  *)
(* channel `auths` into the observer.  The token-exchange API is the test  *)
(* double slackAPIMock of the package's test file.                         *)
(***************************************************************************)
EXTENDS Integers, Sequences, FiniteSets, TLC

\* ---------------------------------------------------------------- bounds
MaxReq == 2          \* number of callback requests that arrive
MaxRuns == 2         \* number of calls of Run

\* ------------------------------------------------------- program constants
QueueCap == 1        \* make(chan *slack.OAuthResponse, 1)

\* ------------------------------------------------------------ value sets
NIL == "nil"                         \* the nil func value / nil pointer
Requests == 1..MaxReq
Strs == {"", "x"}                    \* an empty and a non-empty option string
Codes == {"invalid", "fooo"}         \* values of the `code` form parameter
\* Template sources: a file that cannot be read, one that reads but does not
\* parse, one that always renders (static text), one that parses but whose
\* execution fails against the data (a field the response does not have).
TplFiles == {"invalid.txt", "broken.txt", "valid.txt", "strict.txt"}
Readable == {"broken.txt", "valid.txt", "strict.txt"}
Parseable == {"valid.txt", "strict.txt"}
ExecFails == {"strict.txt"}
\* Observer functions an application may pass to OnAuth; NIL unsets the slot.
\* What a call of an observer does is the application's: it returns or panics.
Observers == {"f", "g"}
Funcs == Observers \cup {NIL}
Outcomes == {"returns", "panics"}
\* The two ways a build may compile `if s.callback != nil { s.callback(auth) }`
\* (the field is read without synchronisation): one load used for both the
\* test and the call, or a second load for the call.
Builds == {"load_once", "reload"}

Options == [Addr : Strs, ClientID : Strs, ClientSecret : Strs,
            SuccessTpl : TplFiles, ErrorTpl : TplFiles]

VARIABLES
  opts,        \* the Options value passed to New
  build,       \* how the dispatcher's two uses of s.callback were compiled
  phase,       \* "init" before New, then "ready" (service) or "failed" (nil, err)
  err,         \* the error New returned
  reads,       \* template files New has read, in order
  successTpl,  \* s.successTpl
  errorTpl,    \* s.errorTpl
  cap,         \* capacity of s.auths
  auths,       \* content of the channel s.auths
  callback,    \* s.callback, the observer slot
  apiCalls,    \* number of GetOAuthResponse calls made
  runs,        \* number of Run calls made
  listener,    \* "none", "serving" or "failed"
  crashed,     \* the process died of an unrecovered panic
  waiting,     \* number of dispatcher goroutines blocked at the receive of
               \* `range s.auths` (goroutines are anonymous: one that holds an
               \* event is identified by that event)
  lpc,         \* per event: where the loop iteration that received it stands:
               \* "none", "test", "call", "in_cb"
  lseen,       \* per event: the value its iteration loaded from s.callback at
               \* the test, then the observer function it is executing
  lnil,        \* history, per event awaiting the test: s.callback was nil when
               \* it was dequeued
  rpc,         \* per request: "idle", "send" (at `s.auths <- resp`), "done"
  rcode,       \* per request: its code parameter
  rerr,        \* per request: GetOAuthResponse returned an error
  rresp,       \* per request: the *OAuthResponse returned (0: nil)
  body,        \* per request: what was written to the ResponseWriter
  pending,     \* history: the events enqueued and neither passed to an observer
               \* nor dropped yet, in the order their send on auths completed
  ncalls,      \* history, per event: observer invocations made with it
  ndrops,      \* history, per event: times it was dropped for lack of an observer
  registered,  \* history: the value most recently passed to OnAuth
  replaced,    \* history: events not yet handled during whose stay in the
               \* channel OnAuth changed the slot
  panics       \* history: number of observer invocations that panicked

vars == <<opts, build, phase, err, reads, successTpl, errorTpl, cap, auths,
          callback, apiCalls, runs, listener, crashed, waiting, lpc, lseen, lnil,
          rpc, rcode, rerr, rresp, body, pending, ncalls, ndrops, registered,
          replaced, panics>>

svcVars == <<successTpl, errorTpl, cap>>
newVars == <<opts, build, phase, err, reads>>
dispVars == <<waiting, lpc, lseen, lnil>>
reqVars == <<rpc, rcode, rerr, rresp, body>>
histVars == <<pending, ncalls, ndrops, registered, replaced, panics>>

\* ------------------------------------------------------------------ errors
NoErr == [op |-> "none", path |-> ""]
\* errors.New("slackauth: addr, client id and client secret can not be empty")
ErrEmpty == [op |-> "empty", path |-> ""]
\* ioutil.ReadFile's *PathError: "open <file>: ..."
ErrOpen(file) == [op |-> "open", path |-> file]
\* the parse error of template.New("").Parse: "template: <name>:<line>: ...",
\* <name> being the name the template was created with
ErrParse(name) == [op |-> "parse", path |-> name]

\* readTemplate: the template (named by its file here) and the error.
readTemplate(file) ==
  IF file \notin Readable THEN [tpl |-> NIL, err |-> ErrOpen(file)]
  ELSE IF file \notin Parseable THEN [tpl |-> NIL, err |-> ErrParse("")]
  ELSE [tpl |-> file, err |-> NoErr]

\* The test with && for ||: only an all-empty configuration is refused.
RequiredAllMissing(o) == o.Addr = "" /\ o.ClientID = "" /\ o.ClientSecret = ""

\* The empty-field test of New.
RequiredMissing(o) == o.Addr = "" \/ o.ClientID = "" \/ o.ClientSecret = ""

\* The service with an unbuffered channel, make(chan *slack.OAuthResponse).
ServiceUnbuffered(sTpl, eTpl) ==
  [successTpl |-> sTpl, errorTpl |-> eTpl, cap |-> 0, callback |-> NIL]

\* The fields of the &slackAuth{...} New returns: the two templates, the
\* channel's capacity, the callback field (left at its zero value).
Service(sTpl, eTpl) ==
  [successTpl |-> sTpl, errorTpl |-> eTpl, cap |-> QueueCap, callback |-> NIL]

\* New as a function of the options: whether a service is returned, the error,
\* the files read on the way, the API calls made, and the service's fields.
NewResult(o) ==
  LET s == readTemplate(o.SuccessTpl)
      e == readTemplate(o.ErrorTpl)
      none == [ok |-> FALSE, err |-> NoErr, reads |-> <<>>, api |-> 0,
               successTpl |-> NIL, errorTpl |-> NIL, cap |-> 0, callback |-> NIL]
  IN  IF RequiredMissing(o)
        THEN [none EXCEPT !.err = ErrEmpty]
      ELSE IF s.err # NoErr
        THEN [none EXCEPT !.err = s.err, !.reads = <<o.SuccessTpl>>]
      ELSE IF e.err # NoErr
        THEN [none EXCEPT !.err = e.err, !.reads = <<o.SuccessTpl, o.ErrorTpl>>]
      ELSE [ok |-> TRUE, err |-> NoErr, reads |-> <<o.SuccessTpl, o.ErrorTpl>>,
            api |-> 0,
            successTpl |-> Service(s.tpl, e.tpl).successTpl,
            errorTpl |-> Service(s.tpl, e.tpl).errorTpl,
            cap |-> Service(s.tpl, e.tpl).cap,
            callback |-> Service(s.tpl, e.tpl).callback]

\* slackAPIMock.GetOAuthResponse: fails for the code "invalid" only; the
\* response is a fresh pointer, identified here by the request that got it.
GetOAuthResponse(code, r) ==
  IF code = "invalid" THEN [resp |-> 0, failed |-> TRUE]
                      ELSE [resp |-> r, failed |-> FALSE]

\* tpl.Execute(w, data): what ends up in the response body.  A failing
\* execution leaves the partial output written so far.
Execute(tpl, data) == [tpl |-> tpl, data |-> data, complete |-> tpl \notin ExecFails]
NoBody == [tpl |-> "", data |-> 0, complete |-> FALSE]

\* The value the dispatcher calls at `s.callback(auth)`.
CalledFunc(e) == IF build = "reload" THEN callback ELSE lseen[e]

\* The test inverted: the observer is called when the slot is nil.
AfterTestInverted(seen) == IF seen = NIL THEN "call" ELSE "recv"

\* Where the dispatcher goes after the test `s.callback != nil`.
AfterTest(seen) == IF seen # NIL THEN "call" ELSE "recv"

\* A sequence without the occurrences of e.
Without(seq, e) == SelectSeq(seq, LAMBDA x : x # e)

\* Events that are enqueued and not dequeued yet.
InTransit == {auths[i] : i \in 1..Len(auths)}

\* ---------------------------------------------------------------- initial
\* Everything outside the service's fields, before anything ran.
Start ==
  /\ build \in Builds
  /\ auths = <<>>
  /\ runs = 0
  /\ listener = "none"
  /\ crashed = FALSE
  /\ waiting = 0
  /\ lpc = [e \in Requests |-> "none"]
  /\ lseen = [e \in Requests |-> NIL]
  /\ lnil = [e \in Requests |-> FALSE]
  /\ rpc = [r \in Requests |-> "idle"]
  /\ rcode = [r \in Requests |-> ""]
  /\ rerr = [r \in Requests |-> FALSE]
  /\ rresp = [r \in Requests |-> 0]
  /\ body = [r \in Requests |-> NoBody]
  /\ pending = <<>>
  /\ ncalls = [r \in Requests |-> 0]
  /\ ndrops = [r \in Requests |-> 0]
  /\ registered = NIL
  /\ replaced = {}
  /\ panics = 0

\* Before New is called, for any Options value.
InitNew ==
  /\ opts \in Options
  /\ phase = "init"
  /\ err = NoErr
  /\ reads = <<>>
  /\ successTpl = NIL /\ errorTpl = NIL /\ cap = 0
  /\ callback = NIL
  /\ apiCalls = 0
  /\ Start

\* The service New returns, for any Options value it accepts.
Init ==
  /\ opts \in {o \in Options : NewResult(o).ok}
  /\ phase = "ready"
  /\ err = NewResult(opts).err
  /\ reads = NewResult(opts).reads
  /\ successTpl = NewResult(opts).successTpl
  /\ errorTpl = NewResult(opts).errorTpl
  /\ cap = NewResult(opts).cap
  /\ callback = NewResult(opts).callback
  /\ apiCalls = NewResult(opts).api
  /\ Start

\* ------------------------------------------------------------------ actions
\* New(opts)
New ==
  /\ phase = "init"
  /\ LET n == NewResult(opts) IN
       /\ phase' = IF n.ok THEN "ready" ELSE "failed"
       /\ err' = n.err
       /\ reads' = n.reads
       /\ apiCalls' = apiCalls + n.api
       /\ successTpl' = n.successTpl
       /\ errorTpl' = n.errorTpl
       /\ cap' = n.cap
       /\ callback' = n.callback
       /\ auths' = <<>>
  /\ UNCHANGED <<opts, build, runs, listener, crashed>>
  /\ UNCHANGED <<dispVars, reqVars, histVars>>

\* runServer: ListenAndServe binds the address or returns an error; the
\* address is taken while a listener of an earlier Run serves it.
runServer(outcome) ==
  IF listener = "serving" THEN listener
  ELSE outcome

\* Run(): starts one dispatcher goroutine, then runs the listener.
Run(outcome) ==
  /\ phase = "ready" /\ ~crashed
  /\ runs < MaxRuns
  /\ runs' = runs + 1
  /\ waiting' = waiting + 1
  /\ listener' = runServer(outcome)
  /\ UNCHANGED <<newVars, svcVars, auths, callback, apiCalls, crashed>>
  /\ UNCHANGED <<lpc, lseen, lnil, reqVars, histVars>>

\* A slot that keeps its first observer.
StoredIfUnset(fn) == IF callback = NIL THEN fn ELSE callback

\* The value OnAuth(fn) leaves in the slot.
Stored(fn) == fn

\* OnAuth(fn)
OnAuth(fn) ==
  /\ phase = "ready" /\ ~crashed
  /\ callback' = Stored(fn)
  /\ registered' = fn
  /\ replaced' = IF Stored(fn) # callback THEN replaced \cup InTransit ELSE replaced
  /\ UNCHANGED <<newVars, svcVars, auths, apiCalls, runs, listener, crashed>>
  /\ UNCHANGED <<dispVars, reqVars, pending, ncalls, ndrops, panics>>

\* A receive that hands out the head of the channel without removing it.
RecvKeep ==
  /\ ~crashed /\ waiting > 0
  /\ auths # <<>>
  /\ waiting' = waiting - 1
  /\ lpc' = [lpc EXCEPT ![Head(auths)] = "test"]
  /\ lnil' = [lnil EXCEPT ![Head(auths)] = (callback = NIL)]
  /\ UNCHANGED <<newVars, svcVars, auths, callback, apiCalls, runs, listener, crashed>>
  /\ UNCHANGED <<lseen, reqVars, histVars>>

\* Dispatcher: `for auth := range s.auths` receives the next event; any of
\* the goroutines waiting at the receive takes it.
Recv ==
  /\ ~crashed /\ waiting > 0
  /\ auths # <<>>
  /\ waiting' = waiting - 1
  /\ auths' = Tail(auths)
  /\ lpc' = [lpc EXCEPT ![Head(auths)] = "test"]
  /\ lnil' = [lnil EXCEPT ![Head(auths)] = (callback = NIL)]
  /\ UNCHANGED <<newVars, svcVars, callback, apiCalls, runs, listener, crashed>>
  /\ UNCHANGED <<lseen, reqVars, histVars>>

\* The event put back on the channel for a later observer.
Requeue(queue, ev) == Append(queue, ev)

\* The channel after the branch taken when no observer is set: the event is
\* only logged about, nothing is put back.
OnNoHandler(queue, ev) == queue

\* Dispatcher: `if s.callback != nil`, else the warning and the next iteration.
Test(e) ==
  /\ ~crashed /\ lpc[e] = "test"
  /\ IF AfterTest(callback) = "recv"
       THEN /\ ndrops' = [ndrops EXCEPT ![e] = @ + 1]
            /\ pending' = Without(pending, e)
            /\ replaced' = replaced \ {e}
            /\ lpc' = [lpc EXCEPT ![e] = "none"]
            /\ lnil' = [lnil EXCEPT ![e] = FALSE]
            /\ waiting' = waiting + 1
            /\ auths' = OnNoHandler(auths, e)
            /\ UNCHANGED lseen
       ELSE /\ lpc' = [lpc EXCEPT ![e] = "call"]
            /\ lseen' = [lseen EXCEPT ![e] = callback]
            /\ lnil' = [lnil EXCEPT ![e] = FALSE]
            /\ UNCHANGED <<waiting, ndrops, pending, replaced, auths>>
  /\ UNCHANGED <<newVars, svcVars, callback, apiCalls, runs, listener, crashed>>
  /\ UNCHANGED <<reqVars, ncalls, registered, panics>>

\* Dispatcher: `s.callback(auth)` is entered; calling a nil func panics.
Call(e) ==
  /\ ~crashed /\ lpc[e] = "call"
  /\ IF CalledFunc(e) = NIL
       THEN /\ crashed' = TRUE
            /\ UNCHANGED <<lpc, lseen, ncalls, pending>>
       ELSE /\ lpc' = [lpc EXCEPT ![e] = "in_cb"]
            /\ lseen' = [lseen EXCEPT ![e] = CalledFunc(e)]
            /\ ncalls' = [ncalls EXCEPT ![e] = @ + 1]
            /\ pending' = Without(pending, e)
            /\ UNCHANGED crashed
  /\ UNCHANGED <<newVars, svcVars, auths, callback, apiCalls, runs, listener>>
  /\ UNCHANGED <<waiting, lnil, reqVars, ndrops, registered, replaced, panics>>

\* Whether the loop survives a panic of the observer: nothing in Run's
\* goroutine recovers, so the panic ends the goroutine and the process.
Recovers == FALSE

\* Dispatcher: the observer returns, or panics.
Return(e, outcome) ==
  /\ ~crashed /\ lpc[e] = "in_cb"
  /\ panics' = IF outcome = "panics" THEN panics + 1 ELSE panics
  /\ crashed' = (outcome = "panics" /\ ~Recovers)
  /\ waiting' = IF outcome = "panics" /\ ~Recovers THEN waiting ELSE waiting + 1
  /\ lpc' = [lpc EXCEPT ![e] = "none"]
  /\ lseen' = [lseen EXCEPT ![e] = NIL]
  /\ replaced' = replaced \ {e}
  /\ UNCHANGED <<newVars, svcVars, auths, callback, apiCalls, runs, listener>>
  /\ UNCHANGED <<lnil, reqVars, pending, ncalls, ndrops, registered>>

\* The template ServeHTTP executes for an exchange result.
ChosenTpl(failed) == IF failed THEN errorTpl ELSE successTpl

\* The return after the failure page forgotten: the handler goes on to the send.
AfterRenderNoReturn(failed) == "send"

\* Where ServeHTTP goes after writing the body.
AfterRender(failed) == IF failed THEN "done" ELSE "send"

\* A handler that gives up when a template fails to render.
AbortOnRenderError(next, out) == IF out.complete THEN next ELSE "done"

\* What ServeHTTP does about an error of Execute: it logs it and goes on to
\* where it was going.
OnRenderError(next, out) == next

\* ServeHTTP up to the send: the code is read, the token exchange is called,
\* the template for its result is executed into the response; on an exchange
\* error the handler returns.  Nothing shared is read or written on the way.
Handle(r, code) ==
  /\ ~crashed /\ listener = "serving"
  /\ rpc[r] = "idle"
  /\ \A q \in Requests : q < r => rpc[q] # "idle"
  /\ LET x == GetOAuthResponse(code, r) IN
       /\ rerr' = [rerr EXCEPT ![r] = x.failed]
       /\ rresp' = [rresp EXCEPT ![r] = x.resp]
       /\ body' = [body EXCEPT ![r] = Execute(ChosenTpl(x.failed), x.resp)]
       /\ rpc' = [rpc EXCEPT ![r] = OnRenderError(AfterRender(x.failed),
                                                  Execute(ChosenTpl(x.failed), x.resp))]
  /\ rcode' = [rcode EXCEPT ![r] = code]
  /\ apiCalls' = apiCalls + 1
  /\ UNCHANGED <<newVars, svcVars, auths, callback, runs, listener, crashed>>
  /\ UNCHANGED <<dispVars, histVars>>

\* A channel that never fills (an unbounded queue).
CanSendAlways == TRUE

\* Whether `s.auths <- resp` can proceed.
CanSend == Len(auths) < cap

\* A send that gives up when the channel is full (select with a default
\* branch) instead of blocking.
SendOrSkip(r) ==
  /\ ~crashed /\ rpc[r] = "send"
  /\ auths' = IF CanSend THEN Append(auths, rresp[r]) ELSE auths
  /\ pending' = IF CanSend THEN Append(pending, rresp[r]) ELSE pending
  /\ rpc' = [rpc EXCEPT ![r] = "done"]
  /\ UNCHANGED <<newVars, svcVars, callback, apiCalls, runs, listener, crashed>>
  /\ UNCHANGED <<rcode, rerr, rresp, body, dispVars, ncalls, ndrops, registered, replaced, panics>>

\* ServeHTTP, last part: `s.auths <- resp`, blocking while the channel is full.
Send(r) ==
  /\ ~crashed /\ rpc[r] = "send"
  /\ CanSend
  /\ auths' = Append(auths, rresp[r])
  /\ rpc' = [rpc EXCEPT ![r] = "done"]
  /\ pending' = Append(pending, rresp[r])
  /\ UNCHANGED <<newVars, svcVars, callback, apiCalls, runs, listener, crashed>>
  /\ UNCHANGED <<rcode, rerr, rresp, body, dispVars, ncalls, ndrops, registered, replaced, panics>>

Dispatch ==
  \/ Recv
  \/ \E e \in Requests : Test(e) \/ Call(e) \/ \E o \in Outcomes : Return(e, o)
ServeHTTP == \E r \in Requests : (\E c \in Codes : Handle(r, c)) \/ Send(r)

Next ==
  \/ \E o \in {"serving", "failed"} : Run(o)
  \/ \E fn \in Funcs : OnAuth(fn)
  \/ Dispatch
  \/ ServeHTTP

Spec == Init /\ [][Next]_vars

\* The scheduler runs runnable goroutines: while a dispatcher's step or a
\* handler's send can be taken, one of them eventually is.  (No step of the
\* application, OnAuth or Run, disables any of them, so this follows from
\* weak fairness of each goroutine.)
Fairness == WF_vars(Dispatch \/ \E r \in Requests : Send(r))

\* Liveness is checked for the service of the package's test: two templates of
\* static text.  The templates decide nothing but the response bodies.
InitLive ==
  /\ Init
  /\ opts.SuccessTpl = "valid.txt" /\ opts.ErrorTpl = "valid.txt"

FairSpec == InitLive /\ [][Next]_vars /\ Fairness

\* Liveness with templates whose execution fails: both pages are templates
\* that parse and fail against the data they are executed with.
InitRender ==
  /\ Init
  /\ opts.SuccessTpl \in ExecFails /\ opts.ErrorTpl \in ExecFails

FairSpecRender == InitRender /\ [][Next]_vars /\ Fairness

\* Construction alone: New applied to any Options value, then the calls an
\* application makes on the service it got.
NextNew ==
  \/ New
  \/ \E o \in {"serving", "failed"} : Run(o)
  \/ \E fn \in Funcs : OnAuth(fn)

SpecNew == InitNew /\ [][NextNew]_vars

\* ------------------------------------------------------------------ claims
\* An observer is registered and the process (so its dispatcher) is running.
Registered == callback # NIL /\ ~crashed

\* An observer is registered and no observer call has panicked.
ObserverReturns == callback \in Observers /\ panics = 0 /\ ~crashed

\* The exchange of request r succeeded and its handler is past the rendering.
Succeeded(r) == rpc[r] \in {"send", "done"} /\ ~rerr[r]

\* The exchange of request r failed and its handler has returned.
Failed(r) == rpc[r] = "done" /\ rerr[r]

\* The events a dispatcher holds.
Held == {e \in Requests : lpc[e] # "none"}

\* The events in the channel.
Queued == {auths[i] : i \in 1..Len(auths)}

\* C1: a request whose exchange succeeded has the rendered success template
\* as its body, the observer is never invoked twice with its token response,
\* and while an observer stays registered and the dispatcher runs it is
\* eventually invoked with it once.
C1_DeliveredOnce ==
  /\ [](\A r \in Requests :
         /\ Succeeded(r) => body[r] = Execute(successTpl, rresp[r]) /\ rresp[r] = r
         /\ ncalls[r] <= 1)
  /\ \A r \in Requests :
       (rpc[r] = "send") ~> (ncalls[r] = 1 \/ ~Registered)

C1_Witness ==
  \E r \in Requests :
    /\ rpc[r] = "done" /\ ~rerr[r] /\ ncalls[r] = 1
    /\ body[r] = Execute(successTpl, r)
    /\ Registered

\* C2: a request whose exchange fails gets the rendered failure template and
\* returns at once; its step leaves the channel and the observer slot as they
\* were, nothing of it is ever enqueued and no observer is invoked for it.
C2_FailureIsolated ==
  /\ [][\A r \in Requests :
          (rpc[r] = "idle" /\ rpc'[r] # "idle" /\ rerr'[r]) =>
            /\ rpc'[r] = "done"
            /\ body'[r] = Execute(errorTpl, 0)
            /\ auths' = auths /\ pending' = pending
            /\ callback' = callback]_vars
  /\ [](\A r \in Requests :
         rerr[r] => /\ rpc[r] = "done"
                    /\ r \notin Queued \cup Held
                    /\ ncalls[r] = 0 /\ ndrops[r] = 0)

C2_Witness ==
  \E r, q \in Requests :
    /\ Failed(r) /\ body[r] = Execute(errorTpl, 0)
    /\ ncalls[r] = 0
    /\ q \in Queued

\* C3: with a returning observer registered and the dispatcher running, every
\* request at the send gets through the channel of capacity 1 and completes,
\* and its event is delivered exactly once: none is lost, none is delivered
\* twice, none is both delivered and dropped.
C3_NoDeadlockNoLoss ==
  /\ [](\A r \in Requests : ncalls[r] + ndrops[r] <= 1)
  /\ \A r \in Requests :
       (rpc[r] = "send") ~>
         ((rpc[r] = "done" /\ ncalls[r] = 1 /\ ndrops[r] = 0) \/ ~ObserverReturns)

C3_Witness ==
  /\ cap = 1
  /\ ObserverReturns
  /\ \A r \in Requests : rpc[r] = "done" /\ ~rerr[r] /\ ncalls[r] = 1

\* C4: events reach the observer (or are dropped) in the order their sends
\* completed: whatever is passed on or dropped is the oldest pending event.
C4_Fifo ==
  [][\A r \in Requests :
       (ncalls'[r] + ndrops'[r] > ncalls[r] + ndrops[r]) =>
         (pending # <<>> /\ r = Head(pending))]_vars

\* C5 as stated: an event dequeued while the slot was unset is dropped, not
\* taken on toward an observer, when the dispatcher takes its next step.
C5_DroppedAtDequeue ==
  [][\A e \in Requests :
       (lpc[e] = "test" /\ lnil[e] /\ lpc'[e] # "test") =>
         (ndrops'[e] = ndrops[e] + 1 /\ lpc'[e] = "none")]_vars

\* C5, amended: an event for which the dispatcher's test finds the slot unset
\* is dropped by that step, nothing is put back on the channel or kept, and a
\* dropped event is never passed to an observer, whatever is registered later.
C5_DropIsFinal ==
  /\ [][\A e \in Requests :
          (lpc[e] = "test" /\ callback = NIL /\ lpc'[e] # "test") =>
            /\ ndrops'[e] = ndrops[e] + 1
            /\ lpc'[e] = "none" /\ waiting' = waiting + 1
            /\ auths' = auths]_vars
  /\ [](\A r \in Requests :
         ndrops[r] > 0 => /\ ndrops[r] = 1 /\ ncalls[r] = 0
                          /\ r \notin Queued \cup Held
                          /\ \A i \in 1..Len(pending) : pending[i] # r)

C5_Witness ==
  \E r, q \in Requests :
    /\ ndrops[r] = 1 /\ ncalls[r] = 0
    /\ callback # NIL /\ ncalls[q] = 1

C7_PanicContained ==
  panics > 0 => (~crashed /\ waiting + Cardinality(Held) = runs)

\* An Options value New accepts.
ValidOptions(o) ==
  /\ o.Addr # "" /\ o.ClientID # "" /\ o.ClientSecret # ""
  /\ o.SuccessTpl \in Parseable /\ o.ErrorTpl \in Parseable

\* C8: with Addr, ClientID or ClientSecret empty New returns an error and no
\* service, and has read no template.
C8_RequiredFirst ==
  (phase # "init" /\ (opts.Addr = "" \/ opts.ClientID = "" \/ opts.ClientSecret = "")) =>
    /\ phase = "failed" /\ err # NoErr
    /\ reads = <<>>
    /\ successTpl = NIL /\ errorTpl = NIL /\ cap = 0

C8_Witness ==
  /\ phase = "failed" /\ err = ErrEmpty /\ reads = <<>>
  /\ opts.Addr = "" /\ opts.ClientID # "" /\ opts.ClientSecret # ""
  /\ opts.SuccessTpl = "valid.txt" /\ opts.ErrorTpl = "valid.txt"

\* C9: with the three required fields set and a template that does not load
\* or parse, New returns no service and an error that names the offending
\* template, the success template's when both fail.
C9_ErrorNamesTemplate ==
  (/\ phase # "init"
   /\ opts.Addr # "" /\ opts.ClientID # "" /\ opts.ClientSecret # ""
   /\ (opts.SuccessTpl \notin Parseable \/ opts.ErrorTpl \notin Parseable)) =>
    /\ phase = "failed" /\ err # NoErr
    /\ successTpl = NIL /\ errorTpl = NIL /\ cap = 0
    /\ err.path = (IF opts.SuccessTpl \notin Parseable THEN opts.SuccessTpl
                                                     ELSE opts.ErrorTpl)

C11_BoundedBlocking ==
  /\ [](Len(auths) <= 1)
  /\ [](\A r \in Requests :
         (rpc[r] = "send" /\ ~crashed) => ((ENABLED Send(r)) <=> auths = <<>>))
  /\ [][\A r \in Requests :
          (rpc[r] = "send" /\ rpc'[r] # "send") =>
            /\ rpc'[r] = "done"
            /\ auths = <<>>
            /\ auths' = <<rresp[r]>>]_vars

C11_Witness ==
  \E r, q \in Requests :
    /\ r # q /\ ~crashed
    /\ rpc[q] = "done" /\ auths = <<q>>
    /\ rpc[r] = "send" /\ ~rerr[r]

\* C12: whatever OnAuth calls interleave with the dispatcher's step for an
\* event, the function the dispatcher invokes is the value its test saw, the
\* process never dies of calling an unset (nil) observer (the only other way it
\* dies is a panic raised inside an observer), and each event is passed to one
\* observer or dropped, never both.
C12_TestAndCallAgree ==
  /\ [][\A e \in Requests :
          (lpc[e] = "call" /\ lpc'[e] = "in_cb") => lseen'[e] = lseen[e]]_vars
  /\ [](crashed => panics > 0)
  /\ [](\A e \in Requests : ncalls[e] + ndrops[e] <= 1)

\* The dispatcher loops alive: those waiting at the receive and those holding
\* an event.
Loops == waiting + Cardinality(Held)

\* C13: whatever Run calls were made, a service has at most one dispatcher
\* loop consuming its channel.
C13_SingleLoop == Loops <= 1

\* C14: a template that fails to render stops nothing.  With the failure
\* template failing the handler still returns and enqueues nothing; with the
\* success template failing the handler still goes on to the send with the
\* token response, completes, and the event is delivered once like any other
\* (while an observer stays registered and the process runs).
C14_RenderFailureNotEscalated ==
  /\ [][\A r \in Requests :
          (rpc[r] = "idle" /\ rpc'[r] # "idle" /\ ~body'[r].complete) =>
            /\ crashed' = crashed
            /\ auths' = auths
            /\ IF rerr'[r] THEN rpc'[r] = "done"
                           ELSE rpc'[r] = "send" /\ rresp'[r] = r]_vars
  /\ [](\A r \in Requests :
         (rerr[r] /\ ~body[r].complete) =>
           (r \notin Queued \cup Held /\ ncalls[r] = 0 /\ ndrops[r] = 0))
  /\ \A r \in Requests :
       (rpc[r] = "send" /\ ~body[r].complete) ~>
         ((rpc[r] = "done" /\ ncalls[r] = 1) \/ ~Registered)

C14_Witness ==
  \E r, q \in Requests :
    /\ Failed(r) /\ body[r] = Execute(errorTpl, 0) /\ ~body[r].complete
    /\ rpc[q] = "done" /\ ~rerr[q] /\ ~body[q].complete
    /\ body[q] = Execute(successTpl, q)
    /\ ncalls[q] = 1 /\ ~crashed

\* The sum of f over the set S.
RECURSIVE SumOver(_, _)
SumOver(f, S) ==
  IF S = {} THEN 0
  ELSE LET x == CHOOSE y \in S : TRUE IN f[x] + SumOver(f, S \ {x})

\* Observer invocations made, events dropped, events in the channel or held by
\* a dispatcher that has neither called an observer with them nor dropped
\* them, and successful exchanges whose send completed.
Invocations == SumOver(ncalls, Requests)
Drops == SumOver(ndrops, Requests)
InFlight == Len(auths) + Cardinality({e \in Requests : lpc[e] \in {"test", "call"}})
Enqueued == Cardinality({r \in Requests : rpc[r] = "done" /\ ~rerr[r]})

\* C15: invocations plus drops plus events in the channel or held by the
\* dispatcher equal the successful exchanges whose send completed; a token
\* response passed to an observer is the one a successful exchange returned
\* to a request whose send completed, and it is passed once.
C15_Conservation ==
  /\ Invocations + Drops + InFlight = Enqueued
  /\ \A r \in Requests :
       ncalls[r] > 0 => (ncalls[r] = 1 /\ ~rerr[r] /\ rpc[r] = "done" /\ rresp[r] = r)

C15_Witness ==
  /\ Invocations = 1 /\ InFlight = 1 /\ Enqueued = 2
  /\ \E e \in Requests : lpc[e] = "test"

\* C16: while an observer call is executing for an event, the channel is not
\* drained: every other event that was enqueued and not handled before sits
\* in the channel (so at most one), no step dequeues, a handler blocked at the
\* send on the full channel stays blocked, and a request whose exchange fails
\* can still be served to completion.
C16_SlowObserverStall ==
  /\ [](\A e \in Requests :
         lpc[e] = "in_cb" => (pending = auths /\ Len(auths) <= 1))
  /\ [][\A e \in Requests :
          (lpc[e] = "in_cb" /\ lpc'[e] = "in_cb") =>
            /\ Len(auths') >= Len(auths)
            /\ \A r \in Requests :
                 (rpc[r] = "send" /\ auths # <<>>) => rpc'[r] = "send"]_vars
  /\ [](\A e, r \in Requests :
         (/\ lpc[e] = "in_cb" /\ ~crashed /\ listener = "serving"
          /\ rpc[r] = "idle" /\ \A q \in Requests : q < r => rpc[q] # "idle") =>
           ENABLED Handle(r, "invalid"))
====
